---- MODULE Spec2Model ----
(***************************************************************************)
(* A model of the tile engine (wasm/src/tiler.rs), the hasher              *)
(* (wasm/src/hasher.rs) and the metadata assembler (wasm/src/lib.rs).      *)
(*                                                                         *)
(* tiler::tile_image is modelled with one step per iteration of its inner  *)
(* loop, so that the locals `tiles` and `seen_hashes` can be observed      *)
(* after every prefix of the grid.  generate_metadata is one action.       *)
(***************************************************************************)
EXTENDS Integers, Sequences, FiniteSets, TLC

(***************************************************************************)
(* Bounds of the model.                                                    *)
(***************************************************************************)
\* Images are 1..MaxDim pixels wide and high.
MaxDim == 3
\* Small tile sizes are 0..MaxTile.
MaxTile == 3
\* Tile sizes at the top of the u32 range are 2^32-1 down to 2^32-1-TopTiles.
TopTiles == 3
\* Page lists handed to generate_metadata hold 0..MaxPages pages.
MaxPages == 2

(***************************************************************************)
(* u32 arithmetic.  TLC's integers stop at 2^31-1, so a u32 is kept as two *)
(* 16-bit limbs, value = hi * 2^16 + lo.  The exact (mathematical) result  *)
(* of an operation is a "wide" value, whose hi limb may exceed 16 bits;    *)
(* Wrap reduces it modulo 2^32 and Fits tells whether it was in range.     *)
(***************************************************************************)
Limb == 2^16

u32(n) == [hi |-> n \div Limb, lo |-> n % Limb]

U32_MAX == [hi |-> Limb - 1, lo |-> Limb - 1]

Pow32 == [hi |-> Limb, lo |-> 0]

Fits(a) == a.hi < Limb

Wrap(a) == [hi |-> a.hi % Limb, lo |-> a.lo]

\* The value of a u32 below 2^31 as a TLC integer.
AsInt(a) == a.hi * Limb + a.lo

Less(a, b) == a.hi < b.hi \/ (a.hi = b.hi /\ a.lo < b.lo)

LessEq(a, b) == a = b \/ Less(a, b)

Plus(a, b) ==
    LET lo == a.lo + b.lo
    IN  [hi |-> a.hi + b.hi + (lo \div Limb), lo |-> lo % Limb]

\* a - b for a >= b.
Minus(a, b) ==
    LET lo == a.lo - b.lo
    IN  IF lo < 0 THEN [hi |-> a.hi - b.hi - 1, lo |-> lo + Limb]
                  ELSE [hi |-> a.hi - b.hi, lo |-> lo]

Half(a) == [hi |-> a.hi \div 2, lo |-> (a.lo + (a.hi % 2) * Limb) \div 2]

IsOdd(a) == a.lo % 2 = 1

\* Quotient and remainder of a by b > 0, by doubling the divisor.
RECURSIVE DivMod(_, _)
DivMod(a, b) ==
    IF Less(a, b) THEN [q |-> u32(0), r |-> a]
    ELSE LET d  == DivMod(a, Plus(b, b))
             q2 == Plus(d.q, d.q)
         IN  IF LessEq(b, d.r) THEN [q |-> Plus(q2, u32(1)), r |-> Minus(d.r, b)]
                               ELSE [q |-> q2, r |-> d.r]

Quot(a, b) == DivMod(a, b).q

\* a * b, by halving a.
RECURSIVE Times(_, _)
Times(a, b) ==
    IF a = u32(0) THEN u32(0)
    ELSE LET h == Times(Half(a), b)
             d == Plus(h, h)
         IN  IF IsOdd(a) THEN Plus(d, b) ELSE d

(***************************************************************************)
(* Rust's u32 operators.  Each yields the wrapped value and whether the    *)
(* exact result left the u32 range: with overflow checks on (the debug     *)
(* profile) that is a panic, with them off (the release profile) the       *)
(* wrapped value is used.  Division by zero panics in every profile.       *)
(***************************************************************************)
u32_add(a, b) ==
    LET s == Plus(a, b) IN [val |-> Wrap(s), overflow |-> ~Fits(s)]

u32_sub(a, b) ==
    IF Less(a, b) THEN [val |-> Minus(Plus(a, Pow32), b), overflow |-> TRUE]
                  ELSE [val |-> Minus(a, b), overflow |-> FALSE]

u32_mul(a, b) ==
    LET p == Times(a, b) IN [val |-> Wrap(p), overflow |-> ~Fits(p)]

u32_min(a, b) == IF Less(b, a) THEN b ELSE a

VARIABLES
    overflow_checks,  \* build profile: are arithmetic overflow checks compiled in
    pc,               \* "idle", "tile_loop" (inside tile_image's loops) or "done"
    op,               \* the operation called: "none", "tile_image", "generate_metadata"
    image_data,       \* tile_image's argument image_data
    tile_size,        \* the argument tile_size (u32) of either operation
    quality,          \* tile_image's argument quality: <<>> (None) or <<q>> (Some(q))
    width, height,    \* tile_image's locals: the decoded image's dimensions
    tiles_x, tiles_y, \* tile_image's locals: the grid dimensions
    tx, ty,           \* the grid cell the loops are about to process
    tiles,            \* tile_image's local Vec<TileInfo>
    seen_hashes,      \* tile_image's local HashSet<String>
    pages_json,       \* generate_metadata's argument pages_json
    now,              \* the wall clock generate_metadata read (js_sys::Date::now)
    result            \* what the call returned (or how it ended)

vars == <<overflow_checks, pc, op, image_data, tile_size, quality, width, height,
          tiles_x, tiles_y, tx, ty, tiles, seen_hashes, pages_json, now, result>>

(***************************************************************************)
(* Results.  A Rust Result is Ok(value) or Err(error); a panic ends the    *)
(* call without returning anything.                                        *)
(***************************************************************************)
Ok(v) == [kind |-> "Ok", value |-> v]

Err(e) == [kind |-> "Err", error |-> e]

Panic(m) == [kind |-> "Panic", msg |-> m]

NoResult == [kind |-> "None"]

(***************************************************************************)
(* Input images.  image_data stands for the bytes of an encoded image: a   *)
(* PNG of width x height pixels painted with a pattern, or bytes of no     *)
(* known format.  Pixels are single byte values.                           *)
(***************************************************************************)
Patterns == {"flat", "stripes", "ramp"}

Images == [format : {"png"}, width : 1..MaxDim, height : 1..MaxDim, pattern : Patterns]

Garbage == [format |-> "unknown", width |-> 0, height |-> 0, pattern |-> "flat"]

PixelAt(data, px, py) ==
    IF data.pattern = "flat" THEN 7
    ELSE IF data.pattern = "stripes" THEN 7 + (px % 2)
    ELSE 1 + px + py * data.width

\* The codec's diagnostic for bytes it cannot decode.
DecodeMsg == "The image format could not be determined"

\* The codec's diagnostic for an image it cannot encode.
EncodeMsg == "The encoder or decoder for WebP does not support the color type"

\* image::load_from_memory
load_from_memory(data) ==
    IF data.format = "png"
    THEN Ok([width  |-> u32(data.width),
             height |-> u32(data.height),
             fill   |-> <<>>,
             px     |-> [p \in (0..(data.width - 1)) \X (0..(data.height - 1))
                           |-> PixelAt(data, p[1], p[2])]])
    ELSE Err(DecodeMsg)

(***************************************************************************)
(* hasher.rs                                                               *)
(***************************************************************************)
HexDigits == <<"0", "1", "2", "3", "4", "5", "6", "7",
               "8", "9", "a", "b", "c", "d", "e", "f">>

\* hex::encode: two lowercase hexadecimal digits per byte.
hex_encode(bytes) ==
    [i \in 1..(2 * Len(bytes)) |->
        LET b == bytes[(i + 1) \div 2]
        IN  IF i % 2 = 1 THEN HexDigits[(b \div 16) + 1] ELSE HexDigits[(b % 16) + 1]]

\* One output byte of the digest: every input byte is mixed into it in turn.
RECURSIVE Absorb(_, _, _)
Absorb(bytes, k, acc) ==
    IF k > Len(bytes) THEN acc
    ELSE Absorb(bytes, k + 1, (acc * 31 + bytes[k] + k) % 256)

\* Sha256::new / update / finalize.  The sha2 crate is outside the          
\* repository; what the model keeps of it is that the digest is a           
\* deterministic function of the bytes and is 32 bytes long. 
Sha256(bytes) == [i \in 1..32 |-> Absorb(bytes, 1, (i * 17) % 256)]

\* The hash cut to its first 16 characters.
calculate_hash_truncated(data) == SubSeq(hex_encode(Sha256(data)), 1, 16)

calculate_hash(data) == hex_encode(Sha256(data))

\* chars().take(16) of the full hash
calculate_hash_short(data) == SubSeq(calculate_hash(data), 1, 16)

(***************************************************************************)
(* tiler.rs: the grid                                                      *)
(***************************************************************************)
\* The off-by-one grid: dim / tile_size + 1.
grid_dim_plus_one(dim, ts) ==
    IF ts = u32(0) THEN Panic("attempt to divide by zero")
    ELSE Ok(Plus(Quot(dim, ts), u32(1)))

\* (dim + tile_size - 1) / tile_size, evaluated left to right in u32.
grid_dim(dim, ts) ==
    LET s == u32_add(dim, ts)
        d == u32_sub(s.val, u32(1))
    IN  IF overflow_checks /\ s.overflow THEN Panic("attempt to add with overflow")
        ELSE IF overflow_checks /\ d.overflow
             THEN Panic("attempt to subtract with overflow")
        ELSE IF ts = u32(0) THEN Panic("attempt to divide by zero")
        ELSE Ok(Quot(d.val, ts))

\* x, y, w, h of the cell (cx, cy): tiler.rs lines 70-73.
tile_rect(cx, cy) ==
    LET x  == u32_mul(cx, tile_size)
        y  == u32_mul(cy, tile_size)
        rw == u32_sub(width, x.val)
        rh == u32_sub(height, y.val)
    IN  [overflow |-> x.overflow \/ y.overflow \/ rw.overflow \/ rh.overflow,
         panic |-> IF x.overflow \/ y.overflow
                   THEN Panic("attempt to multiply with overflow")
                   ELSE Panic("attempt to subtract with overflow"),
         x |-> x.val,
         y |-> y.val,
         w |-> u32_min(tile_size, rw.val),
         h |-> u32_min(tile_size, rh.val)]

(***************************************************************************)
(* tiler.rs: crop_and_pad                                                  *)
(***************************************************************************)
\* DynamicImage::crop_imm: the rectangle is clamped to the image.
crop_imm(img, x, y, w, h) ==
    LET cx == u32_min(x, img.width)
        cy == u32_min(y, img.height)
        ch == u32_min(h, Minus(img.height, cy))
        cw == u32_min(w, Minus(img.width, cx))
    IN  [width  |-> cw,
         height |-> ch,
         fill   |-> img.fill,
         px     |-> [p \in (0..(AsInt(cw) - 1)) \X (0..(AsInt(ch) - 1))
                       |-> img.px[<<AsInt(cx) + p[1], AsInt(cy) + p[2]>>]]]

\* ImageBuffer::from_pixel needs 4 * w * h bytes, and panics when that count
\* does not fit the 32-bit usize of the wasm32 target: from w = h = 2^15 on.
CanvasSideLimit == u32(2^15)

\* ImageBuffer::from_pixel(w, h, Rgba([255, 255, 255, 0]))
from_pixel(w, h, rgba) ==
    [width |-> w, height |-> h, fill |-> rgba, px |-> <<>>]

\* imageops::overlay(bottom, top, 0, 0): top's pixels that fall on the canvas.
overlay(bottom, top) ==
    [bottom EXCEPT !.px =
        [p \in {q \in DOMAIN top.px : /\ Less(u32(q[1]), bottom.width)
                                      /\ Less(u32(q[2]), bottom.height)}
           |-> top.px[p]]]

\* Pads only when both sides are short.
needs_pad_both(w, h, ts) == Less(w, ts) /\ Less(h, ts)

\* tiler.rs line 121
needs_pad(w, h, ts) == Less(w, ts) \/ Less(h, ts)

crop_and_pad(img, x, y, w, h, ts) ==
    LET cropped == crop_imm(img, x, y, w, h)
    IN  IF needs_pad(w, h, ts)
        THEN IF LessEq(CanvasSideLimit, ts)
             THEN Panic("Buffer length in ImageBuffer::new overflows usize")
             ELSE Ok(overlay(from_pixel(ts, ts, <<255, 255, 255, 0>>), cropped))
        ELSE Ok(cropped)

(***************************************************************************)
(* tiler.rs: encode_webp                                                   *)
(***************************************************************************)
\* A u32 as four little-endian bytes.
LE32(a) == <<a.lo % 256, a.lo \div 256, a.hi % 256, a.hi \div 256>>

\* The pixels of the occupied region, row by row.
RECURSIVE Raster(_, _, _, _)
Raster(img, rw, rh, k) ==
    IF k >= rw * rh THEN <<>>
    ELSE <<img.px[<<k % rw, k \div rw>>]>> \o Raster(img, rw, rh, k + 1)

\* The extent of the region of img that holds pixels (the rest is fill).
RegionW(img) == Cardinality({p[1] : p \in DOMAIN img.px})

RegionH(img) == Cardinality({p[2] : p \in DOMAIN img.px})

\* The bytes the codec writes for img as ImageFormat::WebP: a lossless
\* ("VP8L") stream, which takes no quality setting.
WebPBytes(img) ==
    <<86, 80, 56, 76>> \o LE32(img.width) \o LE32(img.height)
        \o <<Len(img.fill)>> \o img.fill
        \o <<RegionW(img), RegionH(img)>>
        \o Raster(img, RegionW(img), RegionH(img), 0)

\* The error of a failed encode, without the codec's message.
encode_error_bare(e) == Err(<<"Failed to encode WebP: ">>)

\* map_err(|e| format!("Failed to encode WebP: {}", e))
encode_error(e) == Err(<<"Failed to encode WebP: ", e>>)

\* codec is the outcome of the codec's write: "ok" or "error".
encode_webp(img, q, codec) ==
    IF codec = "ok" THEN Ok(WebPBytes(img)) ELSE encode_error(EncodeMsg)

(***************************************************************************)
(* lib.rs: generate_metadata.  A JSON text is kept as the value it         *)
(* denotes: a number (sign and magnitude), a string, an array, or an       *)
(* object (a map from keys to values); a text that is not JSON is the      *)
(* value JInvalid.  Objects with a repeated key, and structs written as    *)
(* JSON arrays, are not among the inputs.                                  *)
(***************************************************************************)
JNum(neg, mag) == [t |-> "num", neg |-> neg, mag |-> mag]

JStr(str) == [t |-> "str", str |-> str]

JArr(items) == [t |-> "arr", items |-> items]

JObj(fields) == [t |-> "obj", fields |-> fields]

JInvalid == [t |-> "invalid"]

\* Deserialize for u32: a non-negative number of the u32 range.
de_u32(v) ==
    IF v.t # "num" THEN Err("invalid type, expected u32")
    ELSE IF v.neg \/ ~Fits(v.mag) THEN Err("invalid value, expected u32")
    ELSE Ok(v.mag)

\* Deserialize for String.
de_string(v) ==
    IF v.t # "str" THEN Err("invalid type, expected a string") ELSE Ok(v.str)

\* The first error among the results rs (a sequence), or Ok of their values.
RECURSIVE collect(_, _)
collect(rs, k) ==
    IF k > Len(rs) THEN Ok(<<>>)
    ELSE IF rs[k].kind = "Err" THEN rs[k]
    ELSE LET rest == collect(rs, k + 1)
         IN  IF rest.kind = "Err" THEN rest ELSE Ok(<<rs[k].value>> \o rest.value)

\* The value of the field key of the object v; a struct's field must be there.
de_field(v, key) ==
    IF key \notin DOMAIN v.fields THEN Err(<<"missing field", key>>)
    ELSE Ok(v.fields[key])

de_u32_field(v, key) ==
    LET f == de_field(v, key) IN IF f.kind = "Err" THEN f ELSE de_u32(f.value)

de_string_field(v, key) ==
    LET f == de_field(v, key) IN IF f.kind = "Err" THEN f ELSE de_string(f.value)

\* derive(Deserialize) for TileMetadata: lines 164-169.  Unknown keys are ignored.
de_TileMetadata(v) ==
    IF v.t # "obj" THEN Err("invalid type, expected struct TileMetadata")
    ELSE LET f == collect(<<de_u32_field(v, "x"), de_u32_field(v, "y"),
                            de_string_field(v, "hash")>>, 1)
         IN  IF f.kind = "Err" THEN f
             ELSE Ok([x |-> f.value[1], y |-> f.value[2], hash |-> f.value[3]])

\* Deserialize for Vec<TileMetadata>.
de_tiles(v) ==
    IF v.t # "arr" THEN Err("invalid type, expected a sequence")
    ELSE collect([i \in DOMAIN v.items |-> de_TileMetadata(v.items[i])], 1)

de_tiles_field(v, key) ==
    LET f == de_field(v, key) IN IF f.kind = "Err" THEN f ELSE de_tiles(f.value)

\* derive(Deserialize) for PageInfo: lines 155-161.
de_PageInfo(v) ==
    IF v.t # "obj" THEN Err("invalid type, expected struct PageInfo")
    ELSE LET f == collect(<<de_u32_field(v, "page"), de_u32_field(v, "width"),
                            de_u32_field(v, "height"), de_tiles_field(v, "tiles")>>, 1)
         IN  IF f.kind = "Err" THEN f
             ELSE Ok([page |-> f.value[1], width |-> f.value[2],
                      height |-> f.value[3], tiles |-> f.value[4]])

\* serde_json::from_str::<Vec<PageInfo>>: line 200.
from_str(json) ==
    IF json.t = "invalid" THEN Err("expected value at line 1 column 1")
    ELSE IF json.t # "arr" THEN Err("invalid type, expected a sequence")
    ELSE collect([i \in DOMAIN json.items |-> de_PageInfo(json.items[i])], 1)

\* derive(Serialize) for TileMetadata.
ser_TileMetadata(tile) ==
    JObj([x |-> JNum(FALSE, tile.x), y |-> JNum(FALSE, tile.y), hash |-> JStr(tile.hash)])

\* derive(Serialize) for PageInfo.
ser_PageInfo(page) ==
    JObj([page   |-> JNum(FALSE, page.page),
          width  |-> JNum(FALSE, page.width),
          height |-> JNum(FALSE, page.height),
          tiles  |-> JArr([i \in DOMAIN page.tiles |-> ser_TileMetadata(page.tiles[i])])])

\* An f64 whose value is a whole number of magnitude mag, negative if neg.
F64(neg, mag) == [neg |-> neg, mag |-> mag]

\* The cast `as u64`: negative values saturate to 0.
f64_as_u64(f) == IF f.neg THEN u32(0) ELSE f.mag

\* The document with its pages in reverse order.
metadata_reversed(pages, ts, clock) ==
    JObj([version   |-> JNum(FALSE, f64_as_u64(clock)),
          tile_size |-> JNum(FALSE, ts),
          pages     |-> JArr([i \in DOMAIN pages |->
                                 ser_PageInfo(pages[Len(pages) + 1 - i])])])

\* serde_json::json!({ "version": .., "tile_size": .., "pages": .. }): lines 202-206.
metadata(pages, ts, clock) ==
    JObj([version   |-> JNum(FALSE, f64_as_u64(clock)),
          tile_size |-> JNum(FALSE, ts),
          pages     |-> JArr([i \in DOMAIN pages |-> ser_PageInfo(pages[i])])])

\* map_err of line 200: the parser's message becomes the error.
parse_error(e) == Err(e)

(***************************************************************************)
(* The inputs of generate_metadata.                                        *)
(***************************************************************************)
Hash1 == "abc123"

Hash2 == "def456"

TileJson(cx, cy, hash) ==
    JObj([x |-> JNum(FALSE, u32(cx)), y |-> JNum(FALSE, u32(cy)), hash |-> JStr(hash)])

PageJson(n, tile_list) ==
    JObj([page |-> JNum(FALSE, u32(n)), width |-> JNum(FALSE, u32(2480)),
          height |-> JNum(FALSE, u32(3508)), tiles |-> JArr(tile_list)])

\* Pages a caller may describe: the last carries a key PageInfo does not have.
GoodPages ==
    { PageJson(0, <<>>),
      PageJson(0, <<TileJson(0, 0, Hash1), TileJson(1, 0, Hash2)>>),
      PageJson(1, <<TileJson(1, 0, Hash2), TileJson(0, 0, Hash1)>>),
      JObj([page |-> JNum(FALSE, u32(1)), width |-> JNum(FALSE, U32_MAX),
            height |-> JNum(FALSE, u32(1)), tiles |-> JArr(<<TileJson(0, 0, Hash1)>>),
            note |-> JStr("cover")]) }

\* Pages that are not a PageInfo.
BadPages ==
    { JObj([page |-> JNum(FALSE, u32(0)), width |-> JNum(FALSE, u32(2480)),
            height |-> JNum(FALSE, u32(3508))]),
      JObj([page |-> JNum(FALSE, u32(0)), width |-> JStr("2480"),
            height |-> JNum(FALSE, u32(3508)), tiles |-> JArr(<<>>)]),
      PageJson(0, <<JObj([x |-> JNum(TRUE, u32(1)), y |-> JNum(FALSE, u32(0)),
                          hash |-> JStr(Hash1)])>>),
      PageJson(0, <<TileJson(0, 0, Hash1),
                    JObj([x |-> JNum(FALSE, u32(1)), y |-> JNum(FALSE, u32(0))])>>),
      JObj([page |-> JNum(FALSE, Pow32), width |-> JNum(FALSE, u32(1)),
            height |-> JNum(FALSE, u32(1)), tiles |-> JArr(<<>>)]),
      JStr("page") }

SeqsUpTo(S, n) == UNION {[1..k -> S] : k \in 0..n}

\* Well-formed page lists.
GoodInputs == {JArr(ps) : ps \in SeqsUpTo(GoodPages, MaxPages)}

\* Malformed inputs: no JSON, no array, or an array holding a bad page.
BadInputs ==
    {JInvalid, PageJson(0, <<>>)}
        \cup {JArr(ps) : ps \in {qs \in SeqsUpTo(GoodPages \cup BadPages, MaxPages) :
                                    \E i \in DOMAIN qs : qs[i] \in BadPages}}

\* Readings of the wall clock, in milliseconds.
Clock == {F64(FALSE, [hi |-> 26000000, lo |-> 123]), F64(FALSE, u32(0)), F64(TRUE, u32(5))}

(***************************************************************************)
(* tiler.rs: tile_image                                                    *)
(***************************************************************************)
TileSizes ==
    {u32(n) : n \in 0..MaxTile} \cup {Minus(U32_MAX, u32(k)) : k \in 0..TopTiles}

Qualities == {<<>>, <<50>>}

\* Option::unwrap_or
unwrap_or(opt, default) == IF opt = <<>> THEN default ELSE opt[1]

\* tiler.rs lines 85-87
seen_insert(seen, hash) == IF hash \notin seen THEN seen \cup {hash} ELSE seen

\* Records the cell with its coordinates exchanged.
tiles_push_swapped(ts, cx, cy, hash, data) ==
    Append(ts, [x |-> cy, y |-> cx, hash |-> hash, data |-> data])

\* Leaves out a tile whose hash was seen before.
tiles_push_unseen(ts, cx, cy, hash, data) ==
    IF hash \in seen_hashes THEN ts
    ELSE Append(ts, [x |-> cx, y |-> cy, hash |-> hash, data |-> data])

\* tiler.rs lines 89-94
tiles_push(ts, cx, cy, hash, data) ==
    Append(ts, [x |-> cx, y |-> cy, hash |-> hash, data |-> data])

\* The image tile_image decoded from image_data.
img == load_from_memory(image_data).value

\* Both for loops of tile_image have run to their end.
LoopsDone == ty = tiles_y \/ tiles_x = u32(0)

\* The locals of tile_image are dropped (or moved out) when it ends.
DropLocals == tiles' = <<>> /\ seen_hashes' = {}

Init ==
    /\ overflow_checks \in BOOLEAN
    /\ pc = "idle"
    /\ op = "none"
    /\ image_data = Garbage
    /\ tile_size = u32(0)
    /\ quality = <<>>
    /\ width = u32(0)
    /\ height = u32(0)
    /\ tiles_x = u32(0)
    /\ tiles_y = u32(0)
    /\ tx = u32(0)
    /\ ty = u32(0)
    /\ tiles = <<>>
    /\ seen_hashes = {}
    /\ pages_json = JInvalid
    /\ now = F64(FALSE, u32(0))
    /\ result = NoResult

\* tile_image from its entry to the first cell of the grid: lines 52-64.
TileImageCall ==
    /\ pc = "idle"
    /\ \E data \in Images \cup {Garbage}, ts \in TileSizes, q \in Qualities :
        LET dec == load_from_memory(data)
            gx  == grid_dim(dec.value.width, ts)
            gy  == grid_dim(dec.value.height, ts)
        IN  /\ op' = "tile_image"
            /\ image_data' = data
            /\ tile_size' = ts
            /\ quality' = q
            /\ tx' = u32(0)
            /\ ty' = u32(0)
            /\ tiles' = <<>>
            /\ seen_hashes' = {}
            /\ IF dec.kind = "Err"
               THEN /\ result' = Err(<<"Failed to decode image: ", dec.error>>)
                    /\ pc' = "done"
                    /\ UNCHANGED <<width, height, tiles_x, tiles_y>>
               ELSE /\ width' = dec.value.width
                    /\ height' = dec.value.height
                    /\ IF gx.kind = "Panic"
                       THEN /\ result' = gx
                            /\ pc' = "done"
                            /\ UNCHANGED <<tiles_x, tiles_y>>
                       ELSE IF gy.kind = "Panic"
                       THEN /\ result' = gy
                            /\ pc' = "done"
                            /\ tiles_x' = gx.value
                            /\ UNCHANGED tiles_y
                       ELSE /\ tiles_x' = gx.value
                            /\ tiles_y' = gy.value
                            /\ pc' = "tile_loop"
                            /\ UNCHANGED result
    /\ UNCHANGED <<overflow_checks, pages_json, now>>

\* One iteration of the inner loop, for the cell (tx, ty): lines 69-94.
TileStep ==
    /\ pc = "tile_loop"
    /\ ~LoopsDone
    /\ LET r  == tile_rect(tx, ty)
           cp == crop_and_pad(img, r.x, r.y, r.w, r.h, tile_size)
       IN  IF overflow_checks /\ r.overflow
           THEN /\ result' = r.panic
                /\ pc' = "done"
                /\ DropLocals
                /\ UNCHANGED <<tx, ty>>
           ELSE IF cp.kind = "Panic"
           THEN /\ result' = cp
                /\ pc' = "done"
                /\ DropLocals
                /\ UNCHANGED <<tx, ty>>
           ELSE \E codec \in {"ok", "error"} :
                LET enc  == encode_webp(cp.value, unwrap_or(quality, 80), codec)
                    hash == calculate_hash(enc.value)
                    last == Plus(tx, u32(1)) = tiles_x
                IN  IF enc.kind = "Err"
                    THEN /\ result' = enc
                         /\ pc' = "done"
                         /\ DropLocals
                         /\ UNCHANGED <<tx, ty>>
                    ELSE /\ seen_hashes' = seen_insert(seen_hashes, hash)
                         /\ tiles' = tiles_push(tiles, tx, ty, hash, enc.value)
                         /\ tx' = IF last THEN u32(0) ELSE Plus(tx, u32(1))
                         /\ ty' = IF last THEN Plus(ty, u32(1)) ELSE ty
                         /\ UNCHANGED <<pc, result>>
    /\ UNCHANGED <<overflow_checks, op, image_data, tile_size, quality, width, height,
                   tiles_x, tiles_y, pages_json, now>>

\* The loops are over: lines 98-103.
TileImageReturn ==
    /\ pc = "tile_loop"
    /\ LoopsDone
    /\ result' = Ok([width |-> width, height |-> height,
                     tile_size |-> tile_size, tiles |-> tiles])
    /\ pc' = "done"
    /\ DropLocals
    /\ UNCHANGED <<overflow_checks, op, image_data, tile_size, quality, width, height,
                   tiles_x, tiles_y, tx, ty, pages_json, now>>

\* generate_metadata: lines 198-210.
GenerateMetadata ==
    /\ pc = "idle"
    /\ \E json \in GoodInputs \cup BadInputs, ts \in TileSizes, clock \in Clock :
        LET pages == from_str(json)
        IN  /\ op' = "generate_metadata"
            /\ pages_json' = json
            /\ tile_size' = ts
            /\ now' = clock
            /\ result' = IF pages.kind = "Err"
                         THEN parse_error(pages.error)
                         ELSE Ok(metadata(pages.value, ts, clock))
            /\ pc' = "done"
    /\ UNCHANGED <<overflow_checks, image_data, quality, width, height, tiles_x,
                   tiles_y, tx, ty, tiles, seen_hashes>>

Next ==
    \/ TileImageCall
    \/ TileStep
    \/ TileImageReturn
    \/ GenerateMetadata

Spec == Init /\ [][Next]_vars
(***************************************************************************)
(* Properties of tile_image                                                *)
(***************************************************************************)
TileImageDone == op = "tile_image" /\ pc = "done"

TileImageOk == TileImageDone /\ result.kind = "Ok"

\* tile_image is about to process the cell (tx, ty).
AtCell == op = "tile_image" /\ pc = "tile_loop" /\ ~LoopsDone

\* The tile image tile_image makes for the cell (cx, cy).
TileImageOf(cx, cy) ==
    LET r == tile_rect(cx, cy)
    IN  crop_and_pad(img, r.x, r.y, r.w, r.h, tile_size)

\* The cell the i-th tile of a row-major walk of the grid belongs to.
CellX(i) == u32((i - 1) % AsInt(tiles_x))

CellY(i) == u32((i - 1) \div AsInt(tiles_x))

TransparentWhite == <<255, 255, 255, 0>>

\* C1: tile_image called with tile_size = 0 on a decodable image ends by
\* returning the error InvalidTileSize (it does not panic).
C1_ZeroTileSizeIsAnError ==
    (TileImageDone /\ image_data.format = "png" /\ tile_size = u32(0))
        => (result.kind = "Err" /\ result.error[1] = "InvalidTileSize")

\* ceil(a / b) over the naturals, b > 0: the grid dimension the design asks for.
CeilDiv(a, b) ==
    LET d == DivMod(a, b)
    IN  IF d.r = u32(0) THEN d.q ELSE Plus(d.q, u32(1))

\* C2: a successful tile_image returns exactly ceil(W/T) * ceil(H/T) tiles,
\* for every tile size T >= 1 of the u32 range.
C2_TileCountIsCeil ==
    TileImageOk
        => u32(Len(result.value.tiles))
             = Times(CeilDiv(width, tile_size), CeilDiv(height, tile_size))

\* C3: the tiles of a successful result are in row-major order and cover the
\* grid exactly once: the i-th tile (from 0) is the cell (i mod tiles_x,
\* i div tiles_x), every cell of the grid occurs once, and rows never go back.
C3_RowMajorExactlyOnce ==
    TileImageOk =>
        LET ts == result.value.tiles
        IN  /\ \A i \in DOMAIN ts : ts[i].x = CellX(i) /\ ts[i].y = CellY(i)
            /\ \A cx \in 0..(AsInt(tiles_x) - 1), cy \in 0..(AsInt(tiles_y) - 1) :
                 Cardinality({i \in DOMAIN ts : ts[i].x = u32(cx) /\ ts[i].y = u32(cy)}) = 1
            /\ \A i, j \in DOMAIN ts : i < j => LessEq(ts[i].y, ts[j].y)

\* A successful result with at least two rows and two columns.
C3_Witness ==
    /\ TileImageOk
    /\ Less(u32(1), tiles_x)
    /\ Less(u32(1), tiles_y)
    /\ Len(result.value.tiles) >= 4

\* C4: the tile image made for every cell of the grid is tile_size x
\* tile_size: it is the crop itself exactly when the crop is w = h =
\* tile_size, and a tile_size x tile_size canvas otherwise; and the image
\* inside every tile emitted so far has these dimensions.
C4_TileIsSquare ==
    /\ AtCell =>
         LET r  == tile_rect(tx, ty)
             cp == TileImageOf(tx, ty)
         IN  cp.kind = "Ok" =>
               /\ cp.value.width = tile_size
               /\ cp.value.height = tile_size
               /\ IF r.w = tile_size /\ r.h = tile_size
                  THEN cp.value = crop_imm(img, r.x, r.y, r.w, r.h)
                  ELSE cp.value.fill = TransparentWhite
    /\ (op = "tile_image" /\ pc = "tile_loop") =>
         \A i \in DOMAIN tiles :
            SubSeq(tiles[i].data, 5, 12) = LE32(tile_size) \o LE32(tile_size)

\* A full tile (one without fill) has been emitted and the cell at hand is
\* an edge cell.
C4_Witness ==
    /\ AtCell
    /\ Len(tiles) >= 1
    /\ tiles[1].data = WebPBytes(crop_imm(img, u32(0), u32(0), tile_size, tile_size))
    /\ Less(tile_rect(tx, ty).w, tile_size)
    /\ TileImageOf(tx, ty).kind = "Ok"

\* C5: the hash of every tile is the full 64-character hexadecimal digest of
\* that tile's encoded bytes, so tiles with identical data have identical hash.
C5_HashIsFullDigestOfData ==
    LET ts == IF TileImageOk THEN result.value.tiles ELSE tiles
    IN  /\ \A i \in DOMAIN ts :
             /\ ts[i].hash = hex_encode(Sha256(ts[i].data))
             /\ Len(ts[i].hash) = 64
             /\ \A k \in DOMAIN ts[i].hash :
                  \E d \in DOMAIN HexDigits : ts[i].hash[k] = HexDigits[d]
        /\ \A i, j \in DOMAIN ts : ts[i].data = ts[j].data => ts[i].hash = ts[j].hash

\* A result holding two tiles of identical data and two of different data.
C5_Witness ==
    /\ TileImageOk
    /\ \E i, j \in DOMAIN result.value.tiles :
         i # j /\ result.value.tiles[i].data = result.value.tiles[j].data
    /\ \E i, j \in DOMAIN result.value.tiles :
         result.value.tiles[i].hash # result.value.tiles[j].hash

\* C6: the requested quality is an input of the encode step: for the tile
\* image at hand some other quality of [1, 100] gives other bytes.
C6_QualityReachesCodec ==
    (AtCell /\ TileImageOf(tx, ty).kind = "Ok") =>
        \E q \in 1..100 :
            encode_webp(TileImageOf(tx, ty).value, q, "ok")
                # encode_webp(TileImageOf(tx, ty).value, unwrap_or(quality, 80), "ok")

\* C7: when decoding fails, or encoding fails for any tile, tile_image
\* returns only an error that carries the codec's message: the tiles made
\* so far are gone, and a result that is Ok comes from loops that ran to
\* their end.
C7_FailureReturnsOnlyError ==
    /\ (TileImageDone /\ image_data.format # "png") => result.kind = "Err"
    /\ (TileImageDone /\ result.kind = "Err") =>
         /\ DOMAIN result = {"kind", "error"}
         /\ tiles = <<>>
         /\ IF image_data.format # "png"
            THEN result.error = <<"Failed to decode image: ", DecodeMsg>>
            ELSE result.error = <<"Failed to encode WebP: ", EncodeMsg>> /\ ~LoopsDone
    /\ TileImageOk => LoopsDone

\* Encoding failed for a tile that is not the first one.
C7_Witness ==
    /\ TileImageDone
    /\ result.kind = "Err"
    /\ result.error[1] = "Failed to encode WebP: "
    /\ (tx # u32(0) \/ ty # u32(0))

C10_CellInsideImage ==
    AtCell =>
        LET r == tile_rect(tx, ty)
            X == Times(tx, tile_size)
            Y == Times(ty, tile_size)
        IN  /\ LessEq(u32(1), tile_size)
            /\ Less(X, width)
            /\ Less(Y, height)
            /\ ~r.overflow
            /\ r.x = X
            /\ r.y = Y
            /\ LessEq(u32(1), r.w) /\ LessEq(r.w, tile_size)
            /\ LessEq(u32(1), r.h) /\ LessEq(r.h, tile_size)
            /\ LessEq(Plus(X, r.w), width)
            /\ LessEq(Plus(Y, r.h), height)

\* A cell of the last column, beyond the first, cut short by the image's edge.
C10_Witness ==
    /\ AtCell
    /\ Less(u32(0), tx)
    /\ Less(tile_rect(tx, ty).w, tile_size)

(***************************************************************************)
(* Properties of generate_metadata                                         *)
(***************************************************************************)
MetadataDone == op = "generate_metadata" /\ pc = "done"

\* The page of the document agrees with the page of the input in page,
\* width, height and in its tiles (x, y, hash; same count, same order).
SamePage(out, in) ==
    /\ out.t = "obj"
    /\ DOMAIN out.fields = {"page", "width", "height", "tiles"}
    /\ out.fields.page = in.fields.page
    /\ out.fields.width = in.fields.width
    /\ out.fields.height = in.fields.height
    /\ out.fields.tiles.t = "arr"
    /\ Len(out.fields.tiles.items) = Len(in.fields.tiles.items)
    /\ \A k \in DOMAIN in.fields.tiles.items :
         LET o == out.fields.tiles.items[k]
             n == in.fields.tiles.items[k]
         IN  /\ o.t = "obj"
             /\ DOMAIN o.fields = {"x", "y", "hash"}
             /\ o.fields.x = n.fields.x
             /\ o.fields.y = n.fields.y
             /\ o.fields.hash = n.fields.hash

\* C9: on a well-formed pages list generate_metadata returns a document with
\* exactly the keys version, tile_size and pages, where tile_size is the
\* argument, version is the number read from the clock, and pages is the
\* input list, in order, each page unchanged; on malformed input it returns
\* an error and no document.
C9_MetadataDocument ==
    MetadataDone =>
        IF pages_json \in GoodInputs
        THEN /\ result.kind = "Ok"
             /\ result.value.t = "obj"
             /\ DOMAIN result.value.fields = {"version", "tile_size", "pages"}
             /\ result.value.fields.tile_size = JNum(FALSE, tile_size)
             /\ result.value.fields.version.t = "num"
             /\ ~result.value.fields.version.neg
             /\ ~now.neg => result.value.fields.version.mag = now.mag
             /\ result.value.fields.pages.t = "arr"
             /\ Len(result.value.fields.pages.items) = Len(pages_json.items)
             /\ \A i \in DOMAIN pages_json.items :
                  SamePage(result.value.fields.pages.items[i], pages_json.items[i])
        ELSE /\ result.kind = "Err"
             /\ DOMAIN result = {"kind", "error"}

\* A document for two different pages, the second with two tiles.
C9_Witness ==
    /\ MetadataDone
    /\ result.kind = "Ok"
    /\ Len(pages_json.items) = 2
    /\ pages_json.items[1] # pages_json.items[2]
    /\ Len(pages_json.items[2].fields.tiles.items) = 2
    /\ Len(result.value.fields.pages.items[2].fields.tiles.items) = 2
====
